---- MODULE Spec2Model ----
(***************************************************************************)
(* Model of workspaces_tool.py: target resolution (index lookup followed   *)
(* by a bounded Name-tag sweep), the state filter, the batched start/stop  *)
(* actuator and the exit codes of main.                                    *)
(*                                                                         *)
(* Strings are sequences of one-character strings, so that str.lower() and *)
(* str.strip() are computed character by character.  A missing or None     *)
(* field of a provider record is the empty string (both are falsy in the   *)
(* source, and the source only ever tests such fields for truthiness).     *)
(***************************************************************************)
EXTENDS Integers, Sequences, FiniteSets, TLC

VARIABLES
    pc,               \* position of the run
    action,           \* args.action
    dry_run,          \* args.dry_run
    names_arg,        \* args.names, already split at the commas
    file_arg,         \* args.file: what it names, and the lines of the file
    opts,             \* ResolveOpts: include_tags, max_tag_lookups
    inventory,        \* the provider's WorkSpaces, in describe order
    calls,            \* every provider interaction of the run, in order
    targets,
    all_ws,
    names_index,
    resolved,
    unresolved,
    unresolved_lc,
    matched_now,
    tag_lookups,
    ws_i,             \* position of "for ws in all_ws" (next record to visit)
    states,
    allowed,
    skipped,
    pairs,            \* the argument of start_or_stop
    batch_i,          \* number of chunks of 25 already handled by the running loop
    succeeded,
    failed,
    failures_detail,
    table,            \* the failure table: whether it was printed, and its rows
    list_rows,        \* rows of the users / status table
    exit_code,        \* sys.exit status, or NoExit while running
    workspace_id,     \* the argument of safe_describe_tags
    attempt,          \* passes of "for _ in range(5)" begun so far
    backoff,          \* in tenths of a second
    slept,            \* the time.sleep calls so far, in tenths of a second
    tag_result        \* what safe_describe_tags returned

vars == << pc, action, dry_run, names_arg, file_arg, opts, inventory, calls,
           targets, all_ws, names_index, resolved, unresolved, unresolved_lc,
           matched_now, tag_lookups, ws_i, states, allowed, skipped, pairs,
           batch_i, succeeded, failed, failures_detail, table, list_rows,
           exit_code, workspace_id, attempt, backoff, slept, tag_result >>

\* ---------------------------------------------------------------- bounds

MaxInv == 2          \* records in the provider inventory
MaxTargets == 2      \* targets handed to resolve_targets
MaxCap == 2          \* largest --max-tag-lookups tried
MaxExtra == 2        \* pairs beyond one full batch handed to the batched loops
MaxNames == 3        \* comma-separated pieces of --names

\* ---------------------------------------------------------------- strings

UpperChars == << "A","B","C","D","E","F","G","H","I","J","K","L","M",
                 "N","O","P","Q","R","S","T","U","V","W","X","Y","Z" >>
LowerChars == << "a","b","c","d","e","f","g","h","i","j","k","l","m",
                 "n","o","p","q","r","s","t","u","v","w","x","y","z" >>

LowerChar(c) ==
    IF \E k \in 1..26 : UpperChars[k] = c
    THEN LowerChars[CHOOSE k \in 1..26 : UpperChars[k] = c]
    ELSE c

\* str.lower()
Lower(s) == [k \in 1..Len(s) |-> LowerChar(s[k])]

RECURSIVE LStrip(_)
LStrip(s) == IF s # << >> /\ Head(s) = " " THEN LStrip(Tail(s)) ELSE s

RECURSIVE RStrip(_)
RStrip(s) ==
    IF s # << >> /\ s[Len(s)] = " " THEN RStrip(SubSeq(s, 1, Len(s) - 1)) ELSE s

\* str.strip()
Strip(s) == RStrip(LStrip(s))

\* Python truthiness of a string (None and "" are both the empty sequence)
Truthy(s) == s # << >>

\* x or y
Or(x, y) == IF Truthy(x) THEN x ELSE y

\* ---------------------------------------------------------------- dicts

EmptyDict == << >>

\* d.get(k) for a dict of strings; a miss is None, modelled as ""
Get(d, k) == IF k \in DOMAIN d THEN d[k] ELSE << >>

\* d[k] = v
Put(d, k, v) == [x \in (DOMAIN d) \cup {k} |-> IF x = k THEN v ELSE d[x]]

\* d.pop(k): the dict without k
Pop(d, k) == [x \in (DOMAIN d) \ {k} |-> d[x]]

RECURSIVE SeqToSet(_)
SeqToSet(s) == IF s = << >> THEN {} ELSE {Head(s)} \cup SeqToSet(Tail(s))

RECURSIVE SelectSeqBy(_, _)
\* [x for x in s if x not in drop]
SelectSeqBy(s, drop) ==
    IF s = << >> THEN << >>
    ELSE IF Head(s) \in drop THEN SelectSeqBy(Tail(s), drop)
         ELSE << Head(s) >> \o SelectSeqBy(Tail(s), drop)

\* ---------------------------------------------------------------- inputs

NoExit == -1
NoTable == [printed |-> FALSE, rows |-> << >>]

ws_1 == << "w","s","-","1" >>
ws_2 == << "w","s","-","2" >>
bobs_pc == << "B","o","b","'","s"," ","P","C" >>
ghost == << "g","h","o","s","t" >>

\* Provider records.  R1 and R2 belong to the same user (the index keeps the
\* later one under "bob"); R3 came back without a WorkspaceId.
R1 == [WorkspaceId |-> ws_1, ComputerName |-> << >>, UserName |-> << "b","o","b" >>]
R2 == [WorkspaceId |-> ws_2, ComputerName |-> bobs_pc, UserName |-> << "B","o","b" >>]
R3 == [WorkspaceId |-> << >>, ComputerName |-> ghost, UserName |-> << >>]

RecordPool == {R1, R2, R3}

TargetPool == { ws_1, << "W","S","-","2" >>, bobs_pc, << "B","O","B" >>, ghost }

\* What safe_describe_tags can return for one record: {} (no tags, or any
\* error), a padded Name tag, a lower-case name tag behind an empty Name tag,
\* a Name tag nobody asked for.
TagResults ==
    { EmptyDict,
      [k \in {"Name"} |-> << " ","G","h","o","s","t"," " >>],
      [k \in {"Name", "name"} |->
          IF k = "Name" THEN << >> ELSE << "B","O","B","'","S"," ","P","C" >>],
      [k \in {"Name"} |-> << "z" >>] }

SeqsUpTo(S, n) == UNION {[1..k -> S] : k \in 0..n}

\* ---------------------------------------------------------------- parse_targets

RECURSIVE Dedup(_, _)
\* the "seen / uniq" loop: first occurrence wins, compared in lower case
Dedup(names, seen) ==
    IF names = << >> THEN << >>
    ELSE IF Lower(Head(names)) \in seen
         THEN Dedup(Tail(names), seen)
         ELSE << Head(names) >> \o Dedup(Tail(names), seen \cup {Lower(Head(names))})

RECURSIVE StripParts(_)
\* [p.strip() for p in s.split(",") if p.strip()], on the pieces between commas
StripParts(parts) ==
    IF parts = << >> THEN << >>
    ELSE IF Truthy(Strip(Head(parts)))
         THEN << Strip(Head(parts)) >> \o StripParts(Tail(parts))
         ELSE StripParts(Tail(parts))

RECURSIVE ReadLines(_)
ReadLines(lines) ==
    IF lines = << >> THEN << >>
    ELSE StripParts(Head(lines)) \o ReadLines(Tail(lines))

read_names_from_file(f) == Dedup(ReadLines(f.lines), {})

parse_targets(names, f) ==
    Dedup(StripParts(names)
            \o (IF f.kind = "ok" THEN read_names_from_file(f) ELSE << >>), {})

\* ---------------------------------------------------------------- index

RECURSIVE PutAll(_, _, _)
\* for key in keys: names_index[key.lower()] = wsid
PutAll(d, keys, wsid) ==
    IF keys = {} THEN d
    ELSE LET key == CHOOSE k \in keys : TRUE
         IN  PutAll(Put(d, Lower(key), wsid), keys \ {key}, wsid)

\* WsKeys that forgets the user name
WsKeysNoUser(ws) ==
    {ws.WorkspaceId}
      \cup (IF Truthy(ws.ComputerName) THEN {ws.ComputerName} ELSE {})

WsKeys(ws) ==
    {ws.WorkspaceId}
      \cup (IF Truthy(ws.ComputerName) THEN {ws.ComputerName} ELSE {})
      \cup (IF Truthy(ws.UserName) THEN {ws.UserName} ELSE {})

RECURSIVE IndexFrom(_, _)
IndexFrom(d, workspaces) ==
    IF workspaces = << >> THEN d
    ELSE LET ws == Head(workspaces)
         IN  IF ~Truthy(ws.WorkspaceId)
             THEN IndexFrom(d, Tail(workspaces))
             ELSE IndexFrom(PutAll(d, WsKeys(ws), ws.WorkspaceId), Tail(workspaces))

\* the names_index half of the result (the caller drops by_id)
build_index_without_tags(workspaces) == IndexFrom(EmptyDict, workspaces)

RECURSIVE FirstPassResolved(_, _)
FirstPassResolved(idx, tgts) ==
    IF tgts = << >> THEN << >>
    ELSE LET wsid == Get(idx, Lower(Head(tgts)))
         IN  (IF Truthy(wsid) THEN << << Head(tgts), wsid >> >> ELSE << >>)
               \o FirstPassResolved(idx, Tail(tgts))

RECURSIVE FirstPassUnresolved(_, _)
FirstPassUnresolved(idx, tgts) ==
    IF tgts = << >> THEN << >>
    ELSE LET wsid == Get(idx, Lower(Head(tgts)))
         IN  (IF Truthy(wsid) THEN << >> ELSE << Head(tgts) >>)
               \o FirstPassUnresolved(idx, Tail(tgts))

RECURSIVE LowerDict(_, _)
\* {u.lower(): u for u in unresolved}
LowerDict(d, us) ==
    IF us = << >> THEN d ELSE LowerDict(Put(d, Lower(Head(us)), Head(us)), Tail(us))

\* matched_now[original] = wsid, on an insertion-ordered dict kept as a
\* sequence of (key, value)
RECURSIVE OrderedPut(_, _, _)
OrderedPut(items, k, v) ==
    IF items = << >> THEN << << k, v >> >>
    ELSE IF Head(items)[1] = k THEN << << k, v >> >> \o Tail(items)
         ELSE << Head(items) >> \o OrderedPut(Tail(items), k, v)

Keys(items) == {items[k][1] : k \in 1..Len(items)}

\* tags.get("Name") or tags.get("name") or "", lowered and stripped
TagName(tags) == Strip(Lower(Or(Or(Get(tags, "Name"), Get(tags, "name")), << >>)))

\* ---------------------------------------------------------------- resolve_targets

\* SweepStops that lets one lookup through after the cap is reached
SweepStopsLate(ulc, lookups, cap) == DOMAIN ulc = {} \/ lookups > cap

\* SweepStops that only watches the cap
SweepStopsCapOnly(ulc, lookups, cap) == lookups >= cap

\* The two "break" tests at the head of the sweep's loop body
SweepStops(ulc, lookups, cap) == DOMAIN ulc = {} \/ lookups >= cap

MaxAttempts == 5         \* range(5)
InitialBackoff == 5      \* backoff = 0.5, in tenths of a second
BackoffCap == 40         \* 4.0, in tenths of a second

\* The state every run starts from, apart from its inputs and its entry point
Blank ==
    /\ calls = << >>
    /\ all_ws = << >>
    /\ names_index = EmptyDict
    /\ unresolved = << >>
    /\ unresolved_lc = EmptyDict
    /\ matched_now = << >>
    /\ tag_lookups = 0
    /\ ws_i = 1
    /\ states = EmptyDict
    /\ allowed = << >>
    /\ skipped = << >>
    /\ batch_i = 0
    /\ succeeded = << >>
    /\ failed = << >>
    /\ failures_detail = << >>
    /\ table = NoTable
    /\ list_rows = << >>
    /\ exit_code = NoExit
    /\ attempt = 0
    /\ backoff = InitialBackoff
    /\ slept = << >>
    /\ tag_result = EmptyDict

args == << action, dry_run, names_arg, file_arg, opts, inventory >>
tag_vars == << workspace_id, attempt, backoff, slept, tag_result >>
sweep_vars == << unresolved_lc, matched_now, tag_lookups, ws_i >>
filter_vars == << states, allowed, skipped >>
sos_vars == << pairs, succeeded, failed, failures_detail, table >>

\* resolve_targets up to the start of the sweep: the inventory fetch (which
\* raises RuntimeError when DescribeWorkspaces fails), the index, the first pass
ResolveFirstPass ==
    /\ pc = "resolve"
    /\ \E fetched \in BOOLEAN :
         IF ~fetched
         THEN /\ pc' = "resolve_raised"
              /\ calls' = Append(calls, [op |-> "describe_workspaces", ok |-> FALSE])
              /\ UNCHANGED << all_ws, names_index, resolved, unresolved, sweep_vars >>
         ELSE LET idx == build_index_without_tags(inventory)
                  unres == FirstPassUnresolved(idx, targets)
              IN  /\ calls' = Append(calls, [op |-> "describe_workspaces", ok |-> TRUE])
                  /\ all_ws' = inventory
                  /\ names_index' = idx
                  /\ resolved' = FirstPassResolved(idx, targets)
                  /\ unresolved' = unres
                  /\ IF opts.include_tags /\ unres # << >>
                     THEN /\ pc' = "sweep"
                          /\ unresolved_lc' = LowerDict(EmptyDict, unres)
                          /\ matched_now' = << >>
                          /\ tag_lookups' = 0
                          /\ ws_i' = 1
                     ELSE /\ pc' = "resolved"
                          /\ UNCHANGED sweep_vars
    /\ UNCHANGED << args, tag_vars, targets, filter_vars, sos_vars, batch_i, list_rows, exit_code >>

\* One pass through the body of "for ws in all_ws" that does not break
SweepStep ==
    /\ pc = "sweep"
    /\ ws_i <= Len(all_ws)
    /\ ~SweepStops(unresolved_lc, tag_lookups, opts.max_tag_lookups)
    /\ LET wsid == all_ws[ws_i].WorkspaceId
       IN  IF ~Truthy(wsid)
           THEN UNCHANGED << calls, unresolved_lc, matched_now, tag_lookups >>
           ELSE \E tags \in TagResults :
                  LET tag_name == TagName(tags)
                  IN  /\ calls' = Append(calls, [op |-> "describe_tags", id |-> wsid])
                      /\ tag_lookups' = tag_lookups + 1
                      /\ IF Truthy(tag_name) /\ tag_name \in DOMAIN unresolved_lc
                         THEN /\ unresolved_lc' = Pop(unresolved_lc, tag_name)
                              /\ matched_now' =
                                   OrderedPut(matched_now, unresolved_lc[tag_name], wsid)
                         ELSE UNCHANGED << unresolved_lc, matched_now >>
    /\ ws_i' = ws_i + 1
    /\ UNCHANGED << pc, args, tag_vars, targets, all_ws, names_index, resolved, unresolved,
                    filter_vars, sos_vars, batch_i, list_rows, exit_code >>

\* The loop ends (a break, or the inventory is exhausted); the matches are
\* merged into the result and resolve_targets returns
SweepFinish ==
    /\ pc = "sweep"
    /\ \/ ws_i > Len(all_ws)
       \/ SweepStops(unresolved_lc, tag_lookups, opts.max_tag_lookups)
    /\ resolved' = resolved \o matched_now
    /\ unresolved' = SelectSeqBy(unresolved, Keys(matched_now))
    /\ pc' = "resolved"
    /\ UNCHANGED << args, tag_vars, calls, targets, all_ws, names_index, sweep_vars,
                    filter_vars, sos_vars, batch_i, list_rows, exit_code >>

NoFile == [kind |-> "none", lines |-> << >>]

\* resolve_targets called on its own
InitResolve ==
    /\ Blank
    /\ workspace_id = << >>
    /\ pc = "resolve"
    /\ action = "resolve"
    /\ dry_run = FALSE
    /\ names_arg = << >>
    /\ file_arg = NoFile
    /\ pairs = << >>
    /\ resolved = << >>
    /\ targets \in SeqsUpTo(TargetPool, MaxTargets)
    /\ inventory \in SeqsUpTo(RecordPool, MaxInv)
    /\ opts \in [include_tags : BOOLEAN, max_tag_lookups : 0..MaxCap]

NextResolve == ResolveFirstPass \/ SweepStep \/ SweepFinish

SpecResolve == InitResolve /\ [][NextResolve]_vars

\* ---------------------------------------------------------------- chunked

BatchSize == 25

RECURSIVE ChunkLoopLate(_, _, _)
\* ChunkLoop that yields one item too late
ChunkLoopLate(items, size, buf) ==
    IF items = << >>
    THEN (IF buf # << >> THEN << buf >> ELSE << >>)
    ELSE LET buf2 == Append(buf, Head(items))
         IN  IF Len(buf2) = size + 1
             THEN << buf2 >> \o ChunkLoopLate(Tail(items), size, << >>)
             ELSE ChunkLoopLate(Tail(items), size, buf2)

RECURSIVE ChunkLoop(_, _, _)
\* the generator's loop: the chunks still to be yielded, given the buffer
ChunkLoop(items, size, buf) ==
    IF items = << >>
    THEN (IF buf # << >> THEN << buf >> ELSE << >>)
    ELSE LET buf2 == Append(buf, Head(items))
         IN  IF Len(buf2) = size
             THEN << buf2 >> \o ChunkLoop(Tail(items), size, << >>)
             ELSE ChunkLoop(Tail(items), size, buf2)

chunked(iterable, size) == ChunkLoop(iterable, size, << >>)

Ids(ps) == [k \in 1..Len(ps) |-> ps[k][2]]

\* ---------------------------------------------------------------- start_or_stop

Digits == << "0","1","2","3","4","5","6","7","8","9" >>

WsId(n) == << "w","s","-", Digits[(n \div 10) + 1], Digits[(n % 10) + 1] >>
WsName(n) == << "p","c", Digits[(n \div 10) + 1], Digits[(n % 10) + 1] >>

\* Long lists of resolved pairs.  The names differ (parse_targets removes
\* duplicates); two names may resolve to one workspace, next to each other
\* ("near") or a batch apart ("far").
LongPairs(n, mode) ==
    [k \in 1..n |->
       << WsName(k),
          IF mode = "near" /\ k = 2 THEN WsId(1)
          ELSE IF mode = "far" /\ k = n /\ n > 1 THEN WsId(1)
          ELSE WsId(k) >> ]

PairLists ==
    {LongPairs(n, mode) : n \in 0..(BatchSize + MaxExtra), mode \in {"all", "near", "far"}}

\* One entry of FailedRequests.  The provider names the WorkspaceId and
\* either ErrorCode/ErrorMessage or Error/Message; absent keys are "".
FailedRequest(wsid, style) ==
    [WorkspaceId |-> wsid,
     ErrorCode |-> IF style = 1 THEN << "E","1" >> ELSE << >>,
     Error |-> IF style = 2 THEN << "e","2" >> ELSE << >>,
     ErrorMessage |-> IF style = 1 THEN << "M","1" >> ELSE << >>,
     Message |-> IF style = 2 THEN << "m","2" >> ELSE << >>]

\* The FailedRequests lists the provider may answer a batch with
FailedLists(batch) ==
    { << >>,
      << FailedRequest(batch[1][2], 1) >>,
      << FailedRequest(batch[Len(batch)][2], 2) >>,
      [k \in 1..Len(batch) |-> FailedRequest(batch[k][2], 1)],
      << FailedRequest(<< >>, 3) >>,
      << FailedRequest(WsId(99), 1) >> }

RECURSIVE NameById(_, _)
\* {wsid: name for (name, wsid) in batch}
NameById(d, batch) ==
    IF batch = << >> THEN d
    ELSE NameById(Put(d, Head(batch)[2], Head(batch)[1]), Tail(batch))

\* the rows appended to failures_detail for one answer
DetailRows(failed_list, batch) ==
    LET name_by_id == NameById(EmptyDict, batch)
    IN  [k \in 1..Len(failed_list) |->
           LET item == failed_list[k]
               wsid == item.WorkspaceId
           IN  << IF wsid \in DOMAIN name_by_id THEN name_by_id[wsid] ELSE wsid,
                  wsid,
                  Or(item.ErrorCode, item.Error),
                  Or(item.ErrorMessage, item.Message) >>]

FailedIds(failed_list) ==
    {failed_list[k].WorkspaceId : k \in {j \in 1..Len(failed_list) :
                                          Truthy(failed_list[j].WorkspaceId)}}

RECURSIVE FailedOf(_, _)
FailedOf(batch, failed_ids) ==
    IF batch = << >> THEN << >>
    ELSE (IF Head(batch)[2] \in failed_ids THEN << Head(batch) >> ELSE << >>)
           \o FailedOf(Tail(batch), failed_ids)

\* SucceededOf that forgets the "else"
SucceededOfAll(batch, failed_ids) == Ids(batch)

RECURSIVE SucceededOf(_, _)
SucceededOf(batch, failed_ids) ==
    IF batch = << >> THEN << >>
    ELSE (IF Head(batch)[2] \in failed_ids THEN << >> ELSE << Head(batch)[2] >>)
           \o SucceededOf(Tail(batch), failed_ids)

MutationOp == IF action = "start" THEN "start_workspaces" ELSE "stop_workspaces"

\* One pass through "for batch in chunked(pairs, 25)": the mutation call
\* raises, or answers with a FailedRequests list
SosBatch ==
    /\ pc = "sos"
    /\ batch_i < Len(chunked(pairs, BatchSize))
    /\ LET batch == chunked(pairs, BatchSize)[batch_i + 1]
       IN  \E raised \in BOOLEAN :
             IF raised
             THEN /\ calls' = Append(calls, [op |-> MutationOp, ids |-> Ids(batch),
                                             raised |-> TRUE, failed_list |-> << >>])
                  /\ failed' = failed \o batch
                  /\ UNCHANGED << succeeded, failures_detail >>
             ELSE \E failed_list \in FailedLists(batch) :
                    /\ calls' = Append(calls, [op |-> MutationOp, ids |-> Ids(batch),
                                               raised |-> FALSE,
                                               failed_list |-> failed_list])
                    /\ failures_detail' =
                         failures_detail \o DetailRows(failed_list, batch)
                    /\ failed' = failed \o FailedOf(batch, FailedIds(failed_list))
                    /\ succeeded' =
                         succeeded \o SucceededOf(batch, FailedIds(failed_list))
    /\ batch_i' = batch_i + 1
    /\ UNCHANGED << pc, args, tag_vars, targets, all_ws, names_index, resolved, unresolved,
                    sweep_vars, filter_vars, pairs, table, list_rows, exit_code >>

\* the rows of the failure table, printed when something failed
FailureRows(fails, detail) ==
    IF detail # << >>
    THEN detail
    ELSE [k \in 1..Len(fails) |-> << fails[k][1], fails[k][2], << >>, << >> >>]

\* The loop is over (or pairs was empty): the failure table, and the return
SosReport ==
    /\ pc = "sos"
    /\ batch_i = Len(chunked(pairs, BatchSize))
    /\ table' = IF failed # << >>
                THEN [printed |-> TRUE, rows |-> FailureRows(failed, failures_detail)]
                ELSE NoTable
    /\ pc' = "sos_returned"
    /\ UNCHANGED << args, tag_vars, calls, targets, all_ws, names_index, resolved, unresolved,
                    sweep_vars, filter_vars, pairs, batch_i, succeeded, failed,
                    failures_detail, list_rows, exit_code >>

\* start_or_stop called on its own
InitActuate ==
    /\ Blank
    /\ workspace_id = << >>
    /\ pc = "sos"
    /\ action \in {"start", "stop"}
    /\ dry_run = FALSE
    /\ names_arg = << >>
    /\ file_arg = NoFile
    /\ targets = << >>
    /\ inventory = << >>
    /\ opts = [include_tags |-> FALSE, max_tag_lookups |-> 0]
    /\ resolved = << >>
    /\ pairs \in PairLists

NextActuate == SosBatch \/ SosReport

SpecActuate == InitActuate /\ [][NextActuate]_vars

\* ---------------------------------------------------------------- filter_by_valid_state

\* What the provider may say of the states of the workspaces of one
\* DescribeWorkspaces call: a workspace is reported STOPPED, AVAILABLE or ERROR,
\* reported without a State (""), or missing from the answer (Absent).  A
\* pattern gives the state by the last digit of the WorkspaceId, so one
\* workspace has one state within an answer.
StatePatterns ==
    { << "STOPPED", "STOPPED", "STOPPED" >>,
      << "AVAILABLE", "AVAILABLE", "AVAILABLE" >>,
      << "STOPPED", "AVAILABLE", "ERROR" >>,
      << "ERROR", "STOPPED", "AVAILABLE" >>,
      << "AVAILABLE", "", "STOPPED" >>,
      << "absent", "STOPPED", "AVAILABLE" >>,
      << "STOPPED", "absent", "" >> }

DigitOf(c) == IF \E d \in 1..10 : Digits[d] = c
              THEN (CHOOSE d \in 1..10 : Digits[d] = c) - 1
              ELSE 0

StateIn(pat, wsid) ==
    IF wsid = << >> THEN "absent" ELSE pat[(DigitOf(wsid[Len(wsid)]) % Len(pat)) + 1]

RECURSIVE Described(_, _)
\* resp["Workspaces"] for a call with WorkspaceIds = wsids
Described(pat, wsids) ==
    IF wsids = << >> THEN << >>
    ELSE (IF StateIn(pat, Head(wsids)) = "absent"
          THEN << >>
          ELSE << [WorkspaceId |-> Head(wsids), State |-> StateIn(pat, Head(wsids))] >>)
           \o Described(pat, Tail(wsids))

RECURSIVE PutStates(_, _)
\* for ws in resp["Workspaces"]: states[ws["WorkspaceId"]] = ws["State"]
PutStates(d, wss) ==
    IF wss = << >> THEN d
    ELSE PutStates(Put(d, Head(wss).WorkspaceId, Head(wss).State), Tail(wss))

Required == IF action = "start" THEN "STOPPED" ELSE "AVAILABLE"

\* Allowed that takes a workspace of unknown state along
RECURSIVE AllowedLenient(_, _, _)
AllowedLenient(ps, sts, required) ==
    IF ps = << >> THEN << >>
    ELSE (IF Head(ps)[2] \notin DOMAIN sts \/ sts[Head(ps)[2]] = required
          THEN << Head(ps) >> ELSE << >>)
           \o AllowedLenient(Tail(ps), sts, required)

RECURSIVE Allowed(_, _, _)
\* [(name, wsid) for (name, wsid) in resolved if states.get(wsid) == required]
Allowed(ps, sts, required) ==
    IF ps = << >> THEN << >>
    ELSE (IF Head(ps)[2] \in DOMAIN sts /\ sts[Head(ps)[2]] = required
          THEN << Head(ps) >> ELSE << >>)
           \o Allowed(Tail(ps), sts, required)

RECURSIVE Skipped(_, _, _)
\* [(name, wsid, states.get(wsid, "UNKNOWN")) for (name, wsid) in resolved
\*  if (name, wsid) not in allowed]
Skipped(ps, sts, allow) ==
    IF ps = << >> THEN << >>
    ELSE (IF Head(ps) \in SeqToSet(allow)
          THEN << >>
          ELSE << << Head(ps)[1], Head(ps)[2],
                     IF Head(ps)[2] \in DOMAIN sts THEN sts[Head(ps)[2]]
                     ELSE "UNKNOWN" >> >>)
           \o Skipped(Tail(ps), sts, allow)

\* One pass through "for batch in chunked(wsids, 25)" of get_workspace_states
FetchStates ==
    /\ pc = "filter"
    /\ batch_i < Len(chunked(Ids(resolved), BatchSize))
    /\ LET batch == chunked(Ids(resolved), BatchSize)[batch_i + 1]
       IN  \E raised \in BOOLEAN :
             IF raised
             THEN /\ calls' = Append(calls, [op |-> "describe_workspaces_by_id",
                                             ids |-> batch, ok |-> FALSE,
                                             pat |-> << >>])
                  /\ UNCHANGED states
             ELSE \E pat \in StatePatterns :
                    /\ calls' = Append(calls, [op |-> "describe_workspaces_by_id",
                                               ids |-> batch, ok |-> TRUE, pat |-> pat])
                    /\ states' = PutStates(states, Described(pat, batch))
    /\ batch_i' = batch_i + 1
    /\ UNCHANGED << pc, args, tag_vars, targets, all_ws, names_index, resolved, unresolved,
                    sweep_vars, allowed, skipped, sos_vars, list_rows, exit_code >>

\* The states are in: the partition, and the return
FilterPartition ==
    /\ pc = "filter"
    /\ batch_i = Len(chunked(Ids(resolved), BatchSize))
    /\ allowed' = Allowed(resolved, states, Required)
    /\ skipped' = Skipped(resolved, states, Allowed(resolved, states, Required))
    /\ pc' = "filtered"
    /\ UNCHANGED << args, tag_vars, calls, targets, all_ws, names_index, resolved, unresolved,
                    sweep_vars, states, sos_vars, batch_i, list_rows, exit_code >>

\* filter_by_valid_state called on its own
InitFilter ==
    /\ Blank
    /\ workspace_id = << >>
    /\ pc = "filter"
    /\ action \in {"start", "stop"}
    /\ dry_run = FALSE
    /\ names_arg = << >>
    /\ file_arg = NoFile
    /\ targets = << >>
    /\ inventory = << >>
    /\ opts = [include_tags |-> FALSE, max_tag_lookups |-> 0]
    /\ pairs = << >>
    /\ resolved \in PairLists

NextFilter == FetchStates \/ FilterPartition

SpecFilter == InitFilter /\ [][NextFilter]_vars

\* ---------------------------------------------------------------- main

\* sys.exit(code)
Exit(code) == pc' = "exit" /\ exit_code' = code

NamePool == { ws_1, << " ","B","o","b","'","s"," ","P","C" >>, ghost }

NamesArgs == SeqsUpTo(NamePool, MaxNames)

\* --file: not given, naming no file, naming a file that cannot be read,
\* naming a file of blanks and commas, or naming a file of two lines
FileArgs ==
    { NoFile,
      [kind |-> "missing", lines |-> << >>],
      [kind |-> "unreadable", lines |-> << >>],
      [kind |-> "ok", lines |-> << << << " " >>, << >> >>, << << " "," " >> >> >>],
      [kind |-> "ok", lines |-> << << << "G","H","O","S","T" >>, << " " >> >>,
                                   << << "W","S","-","2"," " >> >> >>] }

MainInventories == { << >>, << R1, R2 >> }

\* ExitsForNoTargets with the test on the action turned around
ExitsForNoTargetsInverted(tgts, act) == tgts = << >> /\ act = "resolve"

\* if not targets and args.action != "resolve"
ExitsForNoTargets(tgts, act) == tgts = << >> /\ act # "resolve"

\* parse_targets and the two checks that follow it
MainParse ==
    /\ pc = "main"
    /\ IF file_arg.kind \in {"missing", "unreadable"}
       THEN Exit(3) /\ UNCHANGED targets
       ELSE /\ targets' = parse_targets(names_arg, file_arg)
            /\ IF ExitsForNoTargets(targets', action)
               THEN Exit(3)
               ELSE pc' = "build_client" /\ UNCHANGED exit_code
    /\ UNCHANGED << args, tag_vars, calls, all_ws, names_index, resolved, unresolved, sweep_vars,
                    filter_vars, sos_vars, batch_i, list_rows >>

\* build_ws_client, and the choice between resolve_targets and ([], [])
MainBuildClient ==
    /\ pc = "build_client"
    /\ \E built \in BOOLEAN :
         /\ calls' = Append(calls, [op |-> "build_ws_client", ok |-> built])
         /\ IF ~built
            THEN Exit(4)
            ELSE /\ pc' = IF targets # << >> THEN "resolve" ELSE "resolved"
                 /\ UNCHANGED exit_code
    /\ UNCHANGED << args, tag_vars, targets, all_ws, names_index, resolved, unresolved,
                    sweep_vars, filter_vars, sos_vars, batch_i, list_rows >>

\* except RuntimeError around resolve_targets
MainResolveFailed ==
    /\ pc = "resolve_raised"
    /\ Exit(4)
    /\ UNCHANGED << args, tag_vars, calls, targets, all_ws, names_index, resolved, unresolved,
                    sweep_vars, filter_vars, sos_vars, batch_i, list_rows >>

\* ResolveExit that tests "unresolved" alone first
ResolveExitUnresolvedFirst(res, unres) ==
    IF unres # << >> THEN 3
    ELSE IF unres # << >> /\ res # << >> THEN 2
    ELSE 0

\* the exit code of --action resolve
ResolveExit(res, unres) ==
    IF unres # << >> /\ res # << >> THEN 2
    ELSE IF unres # << >> THEN 3
    ELSE 0

\* From the return of resolve_targets to the action proper
MainAfterResolve ==
    /\ pc = "resolved"
    /\ IF action = "resolve" THEN Exit(ResolveExit(resolved, unresolved))
       ELSE IF resolved = << >> THEN Exit(3)
       ELSE IF dry_run THEN Exit(0)
       ELSE /\ pc' = IF action \in {"start", "stop"} THEN "filter" ELSE "list"
            /\ UNCHANGED exit_code
    /\ batch_i' = 0
    /\ UNCHANGED << args, tag_vars, calls, targets, all_ws, names_index, resolved, unresolved,
                    sweep_vars, filter_vars, sos_vars, list_rows >>

\* the exit code when nothing is in the required state
NothingAllowedExit(unres) == IF unres # << >> THEN 2 ELSE 3

\* From the return of filter_by_valid_state to start_or_stop
MainAfterFilter ==
    /\ pc = "filtered"
    /\ IF allowed = << >>
       THEN Exit(NothingAllowedExit(unresolved)) /\ UNCHANGED pairs
       ELSE pc' = "sos" /\ pairs' = allowed /\ UNCHANGED exit_code
    /\ batch_i' = 0
    /\ UNCHANGED << args, tag_vars, calls, targets, all_ws, names_index, resolved, unresolved,
                    sweep_vars, filter_vars, succeeded, failed, failures_detail,
                    table, list_rows >>

\* ActuatedExit that reports a clean run as partial
ActuatedExitAlwaysPartial(fails, unres) == 2

\* the exit code after start_or_stop
ActuatedExit(fails, unres) == IF fails # << >> \/ unres # << >> THEN 2 ELSE 0

MainAfterSos ==
    /\ pc = "sos_returned"
    /\ Exit(ActuatedExit(failed, unresolved))
    /\ UNCHANGED << args, tag_vars, calls, targets, all_ws, names_index, resolved, unresolved,
                    sweep_vars, filter_vars, sos_vars, batch_i, list_rows >>

\* the provider's record of a workspace
RecordOf(wsid) ==
    IF \E k \in 1..Len(inventory) : inventory[k].WorkspaceId = wsid
    THEN inventory[CHOOSE k \in 1..Len(inventory) : inventory[k].WorkspaceId = wsid]
    ELSE [WorkspaceId |-> wsid, ComputerName |-> << >>, UserName |-> << >>]

\* the rows list_users_table / list_status_table add for one answer
ListRows(described) ==
    [k \in 1..Len(described) |->
       LET wsid == described[k].WorkspaceId
       IN  << Or(RecordOf(wsid).ComputerName, wsid), wsid,
              IF action = "users" THEN RecordOf(wsid).UserName
              ELSE described[k].State >>]

\* One pass through "for batch in chunked(...)" of the users / status table
ListBatch ==
    /\ pc = "list"
    /\ batch_i < Len(chunked(Ids(resolved), BatchSize))
    /\ LET batch == chunked(Ids(resolved), BatchSize)[batch_i + 1]
       IN  \E raised \in BOOLEAN :
             IF raised
             THEN /\ calls' = Append(calls, [op |-> "describe_workspaces_by_id",
                                             ids |-> batch, ok |-> FALSE,
                                             pat |-> << >>])
                  /\ UNCHANGED list_rows
             ELSE \E pat \in StatePatterns :
                    /\ calls' = Append(calls, [op |-> "describe_workspaces_by_id",
                                               ids |-> batch, ok |-> TRUE, pat |-> pat])
                    /\ list_rows' = list_rows \o ListRows(Described(pat, batch))
    /\ batch_i' = batch_i + 1
    /\ UNCHANGED << pc, args, tag_vars, targets, all_ws, names_index, resolved, unresolved,
                    sweep_vars, filter_vars, sos_vars, exit_code >>

\* the exit code of --action users / status
ListedExit(unres) == IF unres # << >> THEN 2 ELSE 0

\* The table is printed and main exits
MainAfterList ==
    /\ pc = "list"
    /\ batch_i = Len(chunked(Ids(resolved), BatchSize))
    /\ Exit(ListedExit(unresolved))
    /\ UNCHANGED << args, tag_vars, calls, targets, all_ws, names_index, resolved, unresolved,
                    sweep_vars, filter_vars, sos_vars, batch_i, list_rows >>

InitMain ==
    /\ Blank
    /\ workspace_id = << >>
    /\ pc = "main"
    /\ action \in {"resolve", "start", "stop", "users", "status"}
    /\ dry_run \in BOOLEAN
    /\ names_arg \in NamesArgs
    /\ file_arg \in FileArgs
    /\ opts \in [include_tags : BOOLEAN, max_tag_lookups : {0, MaxCap}]
    /\ inventory \in MainInventories
    /\ targets = << >>
    /\ resolved = << >>
    /\ pairs = << >>

NextMain ==
    \/ MainParse
    \/ MainBuildClient
    \/ ResolveFirstPass
    \/ SweepStep
    \/ SweepFinish
    \/ MainResolveFailed
    \/ MainAfterResolve
    \/ FetchStates
    \/ FilterPartition
    \/ MainAfterFilter
    \/ SosBatch
    \/ SosReport
    \/ MainAfterSos
    \/ ListBatch
    \/ MainAfterList

Spec == InitMain /\ [][NextMain]_vars

\* ---------------------------------------------------------------- safe_describe_tags

\* What one client.describe_tags call can do: answer with a TagList, raise a
\* ClientError carrying an error code (possibly none), raise a BotoCoreError.
TagLists ==
    { << >>,
      << [Key |-> "Name", Value |-> << " ","G","h","o","s","t"," " >>] >>,
      << [Key |-> "Name", Value |-> << >>],
         [Key |-> "name", Value |-> << "B","O","B","'","S"," ","P","C" >>] >>,
      << [Key |-> "Name", Value |-> << "z" >>] >> }

ErrorCodes ==
    { "Throttling", "ThrottlingException", "TooManyRequestsException",
      "AccessDeniedException", "" }

TagResponses ==
    {[kind |-> "ok", TagList |-> l, code |-> ""] : l \in TagLists}
      \cup {[kind |-> "ClientError", TagList |-> << >>, code |-> c] : c \in ErrorCodes}
      \cup {[kind |-> "BotoCoreError", TagList |-> << >>, code |-> ""]}

RECURSIVE TagDict(_, _)
\* {t["Key"]: t.get("Value", "") for t in resp.get("TagList", [])}
TagDict(d, tag_list) ==
    IF tag_list = << >> THEN d
    ELSE TagDict(Put(d, Head(tag_list).Key, Head(tag_list).Value), Tail(tag_list))

\* Throttled that knows one spelling of the error only
ThrottledOneCode(code) == code = "Throttling"

\* code in ("Throttling", "ThrottlingException", "TooManyRequestsException")
Throttled(code) ==
    code \in {"Throttling", "ThrottlingException", "TooManyRequestsException"}

\* backoff = min(backoff * 2, 4.0)
NextBackoff(b) == IF b * 2 < BackoffCap THEN b * 2 ELSE BackoffCap

\* what the try / except does with one response
Handling(resp) ==
    IF resp.kind = "ok" THEN "return"
    ELSE IF resp.kind = "ClientError"
         THEN (IF Throttled(resp.code) THEN "retry" ELSE "empty")
    ELSE IF resp.kind = "BotoCoreError" THEN "empty"
    ELSE "raise"

\* One pass through "for _ in range(5)"
DescribeTagsAttempt ==
    /\ pc = "tags"
    /\ attempt < MaxAttempts
    /\ \E resp \in TagResponses :
         /\ calls' = Append(calls, [op |-> "describe_tags_attempt",
                                    id |-> workspace_id, resp |-> resp])
         /\ CASE Handling(resp) = "return" ->
                   /\ tag_result' = TagDict(EmptyDict, resp.TagList)
                   /\ pc' = "tags_returned"
                   /\ UNCHANGED << backoff, slept >>
              [] Handling(resp) = "retry" ->
                   /\ slept' = Append(slept, backoff)
                   /\ backoff' = NextBackoff(backoff)
                   /\ UNCHANGED << pc, tag_result >>
              [] Handling(resp) = "empty" ->
                   /\ tag_result' = EmptyDict
                   /\ pc' = "tags_returned"
                   /\ UNCHANGED << backoff, slept >>
              [] OTHER ->
                   /\ pc' = "tags_raised"
                   /\ UNCHANGED << backoff, slept, tag_result >>
    /\ attempt' = attempt + 1
    /\ UNCHANGED << args, workspace_id, targets, all_ws, names_index, resolved,
                    unresolved, sweep_vars, filter_vars, sos_vars, batch_i,
                    list_rows, exit_code >>

\* The loop ran out: the final "return {}"
DescribeTagsExhausted ==
    /\ pc = "tags"
    /\ attempt = MaxAttempts
    /\ tag_result' = EmptyDict
    /\ pc' = "tags_returned"
    /\ UNCHANGED << args, calls, workspace_id, attempt, backoff, slept, targets,
                    all_ws, names_index, resolved, unresolved, sweep_vars,
                    filter_vars, sos_vars, batch_i, list_rows, exit_code >>

\* safe_describe_tags called on its own
InitTags ==
    /\ Blank
    /\ pc = "tags"
    /\ workspace_id \in {ws_1, ws_2}
    /\ action = "resolve"
    /\ dry_run = FALSE
    /\ names_arg = << >>
    /\ file_arg = NoFile
    /\ targets = << >>
    /\ inventory = << >>
    /\ opts = [include_tags |-> TRUE, max_tag_lookups |-> 1]
    /\ resolved = << >>
    /\ pairs = << >>

NextTags == DescribeTagsAttempt \/ DescribeTagsExhausted

\* a call that can go on does go on: the function is sequential code, and
\* describe_tags and time.sleep return
SpecTags == InitTags /\ [][NextTags]_vars /\ WF_vars(NextTags)

\* ---------------------------------------------------------------- properties of resolve_targets

TagCalls == {k \in 1..Len(calls) : calls[k].op = "describe_tags"}

\* C1: the fallback sweep never performs more label lookups than
\* max_tag_lookups, whatever the inventory, the targets and the cap (0
\* included), also when targets are still unresolved at the cap.
C1_LookupsWithinCap ==
    /\ Cardinality(TagCalls) <= opts.max_tag_lookups
    /\ tag_lookups = Cardinality(TagCalls)

\* the sweep was cut short by a positive cap: targets are still unresolved and
\* a record with an ID was still to be visited
C1_Witness ==
    /\ pc = "resolved"
    /\ opts.max_tag_lookups > 0
    /\ Cardinality(TagCalls) = opts.max_tag_lookups
    /\ DOMAIN unresolved_lc # {}
    /\ unresolved # << >>
    /\ ws_i <= Len(all_ws)
    /\ Truthy(all_ws[ws_i].WorkspaceId)

\* equality of two strings ignoring case, letter by letter
EqIgnoreCase(a, b) ==
    /\ Len(a) = Len(b)
    /\ \A k \in 1..Len(a) :
         \/ a[k] = b[k]
         \/ \E j \in 1..26 : {a[k], b[k]} = {UpperChars[j], LowerChars[j]}

Matches(tgt, ws) ==
    \/ EqIgnoreCase(tgt, ws.WorkspaceId)
    \/ EqIgnoreCase(tgt, ws.ComputerName)
    \/ EqIgnoreCase(tgt, ws.UserName)

FirstPassOver == pc \in {"sweep", "resolved"}

Pairs(ps) == {ps[k] : k \in 1..Len(ps)}

\* C4 as stated: a target that matches the WorkspaceId, ComputerName or
\* UserName of a record (ignoring case) is resolved to that record's
\* WorkspaceId.  (Stated here of the records that have a WorkspaceId only.)
C4_AsStated ==
    FirstPassOver =>
      \A t \in 1..Len(targets) : \A k \in 1..Len(all_ws) :
        (Truthy(all_ws[k].WorkspaceId) /\ Matches(targets[t], all_ws[k]))
          => << targets[t], all_ws[k].WorkspaceId >> \in Pairs(resolved)

\* the records with a WorkspaceId that a target matches
MatchingRecords(tgt) ==
    {k \in 1..Len(all_ws) : Truthy(all_ws[k].WorkspaceId) /\ Matches(tgt, all_ws[k])}

Last(S) == CHOOSE k \in S : \A j \in S : j <= k

\* C4, amended: a target that matches (ignoring case) the WorkspaceId,
\* ComputerName or UserName of some record that has a WorkspaceId is
\* returned by the first pass as a resolved pair whose ID is the WorkspaceId
\* of the last such record of the inventory, and with no other ID.
C4_FirstPassLastWins ==
    FirstPassOver =>
      \A t \in 1..Len(targets) :
        LET M == MatchingRecords(targets[t])
            firstPass == IF pc = "resolved"
                         THEN SubSeq(resolved, 1, Len(resolved) - Len(matched_now))
                         ELSE resolved
        IN  M # {} =>
              /\ << targets[t], all_ws[Last(M)].WorkspaceId >> \in Pairs(firstPass)
              /\ \A p \in Pairs(firstPass) :
                   p[1] = targets[t] => p[2] = all_ws[Last(M)].WorkspaceId

\* a target in another case than the records, matching two records with
\* different IDs, has been resolved
C4_Witness ==
    /\ pc = "resolved"
    /\ \E t \in 1..Len(targets) :
         /\ \E j, k \in MatchingRecords(targets[t]) :
              all_ws[j].WorkspaceId # all_ws[k].WorkspaceId
         /\ \A k \in 1..Len(all_ws) :
              targets[t] \notin
                {all_ws[k].WorkspaceId, all_ws[k].ComputerName, all_ws[k].UserName}
         /\ \E p \in Pairs(resolved) : p[1] = targets[t]

\* C7: once no target is unresolved any more, the sweep performs no further
\* label lookup, whatever is left of the inventory and of the cap.
C7_NoLookupOnceEmpty ==
    [][(pc = "sweep" /\ DOMAIN unresolved_lc = {})
         => (tag_lookups' = tag_lookups /\ calls' = calls /\ pc' = "resolved")]_vars

\* the sweep ended on an empty unresolved set with budget and a record with an
\* ID left
C7_Witness ==
    /\ pc = "resolved"
    /\ matched_now # << >>
    /\ DOMAIN unresolved_lc = {}
    /\ tag_lookups < opts.max_tag_lookups
    /\ ws_i <= Len(all_ws)
    /\ Truthy(all_ws[ws_i].WorkspaceId)

\* ---------------------------------------------------------------- properties of start_or_stop

\* the start_workspaces / stop_workspaces calls issued so far, in order
MutationCalls ==
    SelectSeq(calls, LAMBDA c : c.op \in {"start_workspaces", "stop_workspaces"})

RECURSIVE Concat(_)
Concat(ss) == IF ss = << >> THEN << >> ELSE Head(ss) \o Concat(Tail(ss))

CalledIds == Concat([j \in 1..Len(MutationCalls) |-> MutationCalls[j].ids])

\* C2: every mutation call of start_or_stop carries between 1 and 25 IDs, and
\* the batches, in order, are the input pairs, each exactly once.
C2_BatchesOfAtMost25 ==
    /\ \A j \in 1..Len(MutationCalls) :
         /\ Len(MutationCalls[j].ids) >= 1
         /\ Len(MutationCalls[j].ids) <= 25
         /\ MutationCalls[j].op = MutationOp
    /\ Len(CalledIds) <= Len(pairs)
    /\ CalledIds = SubSeq(Ids(pairs), 1, Len(CalledIds))
    /\ pc = "sos_returned" => CalledIds = Ids(pairs)

\* a run over more than one full batch has returned
C2_Witness ==
    /\ pc = "sos_returned"
    /\ Len(pairs) > 25
    /\ Len(MutationCalls) = 2
    /\ Len(MutationCalls[1].ids) = 25

\* the position in pairs of the first pair of the j-th call
Offset(j) == Len(Concat([i \in 1..(j - 1) |-> MutationCalls[i].ids]))

\* the call that carried the pair at position p
CallOf(p) ==
    CHOOSE j \in 1..Len(MutationCalls) :
      Offset(j) < p /\ p <= Offset(j) + Len(MutationCalls[j].ids)

\* what the provider said of the pair at position p
ReportedFailed(p) ==
    LET c == MutationCalls[CallOf(p)]
    IN  \/ c.raised
        \/ \E k \in 1..Len(c.failed_list) : c.failed_list[k].WorkspaceId = pairs[p][2]

Covered == 1..Len(CalledIds)

Count(seq, x) == Cardinality({k \in 1..Len(seq) : seq[k] = x})

\* C3: a batch whose call raises puts all of its pairs, and no others, in
\* failed; a batch whose call returns puts in failed exactly its pairs named by
\* the returned failure list and the IDs of its other pairs in succeeded; each
\* input pair ends up counted once, in succeeded or in failed.
C3_BatchAccounting ==
    /\ \A p \in Covered :
         IF ReportedFailed(p)
         THEN Count(failed, pairs[p]) = 1
         ELSE Count(failed, pairs[p]) = 0
    /\ \A p \in 1..Len(pairs) : p \notin Covered => Count(failed, pairs[p]) = 0
    /\ Len(failed) = Cardinality({p \in Covered : ReportedFailed(p)})
    /\ Len(succeeded) = Cardinality({p \in Covered : ~ReportedFailed(p)})
    /\ \A w \in {pairs[p][2] : p \in 1..Len(pairs)} :
         Count(succeeded, w) =
           Cardinality({p \in Covered : ~ReportedFailed(p) /\ pairs[p][2] = w})
    /\ pc = "sos_returned" => Len(succeeded) + Len(failed) = Len(pairs)

\* a run of two batches has returned: one call raised, the other returned a
\* failure list naming some but not all of its pairs
C3_Witness ==
    /\ pc = "sos_returned"
    /\ Len(MutationCalls) = 2
    /\ MutationCalls[1].raised
    /\ ~MutationCalls[2].raised
    /\ Len(MutationCalls[2].failed_list) = 1
    /\ Len(MutationCalls[2].ids) > 1
    /\ Len(failed) = 26
    /\ Len(succeeded) >= 1

\* C6: every pair start_or_stop reports in failed is a row, with its
\* workspace ID, of the failure table that was printed.
C6_FailedAllInTable ==
    pc = "sos_returned" =>
      \A k \in 1..Len(failed) :
        /\ table.printed
        /\ \E r \in 1..Len(table.rows) : table.rows[r][2] = failed[k][2]

\* ---------------------------------------------------------------- properties of filter_by_valid_state

\* the answered DescribeWorkspaces calls that reported the workspace
StateHits(wsid) ==
    {j \in 1..Len(calls) :
       /\ calls[j].op = "describe_workspaces_by_id"
       /\ calls[j].ok
       /\ \E k \in 1..Len(calls[j].ids) : calls[j].ids[k] = wsid
       /\ StateIn(calls[j].pat, wsid) # "absent"}

\* the state the provider last reported for the workspace, if it reported any
FetchedState(wsid) ==
    IF StateHits(wsid) = {} THEN "UNKNOWN"
    ELSE StateIn(calls[Last(StateHits(wsid))].pat, wsid)

RowsOf(rows, pr) == {k \in 1..Len(rows) : rows[k][1] = pr[1] /\ rows[k][2] = pr[2]}

Blanks(s) == \A k \in 1..Len(s) : s[k] = " "

\* neither --names nor --file holds anything but blanks and commas
NoTargetsGiven ==
    /\ \A k \in 1..Len(names_arg) : Blanks(names_arg[k])
    /\ file_arg.kind \in {"none", "ok"}
    /\ \A l \in 1..Len(file_arg.lines) :
         \A k \in 1..Len(file_arg.lines[l]) : Blanks(file_arg.lines[l][k])

\* C5 as stated: a start or stop run exits with 2 only when at least one
\* mutation was accepted.
C5_AsStated ==
    (pc = "exit" /\ action \in {"start", "stop"} /\ exit_code = 2)
      => succeeded # << >>

\* C5, amended: a start or stop run exits with 2 only when at least one
\* target was resolved and, besides, some input is unresolved or some mutation
\* failed.
C5_PartialNeedsResolved ==
    (pc = "exit" /\ action \in {"start", "stop"} /\ exit_code = 2)
      => /\ resolved # << >>
         /\ unresolved # << >> \/ failed # << >>

\* a start run exits with 2 although no mutation was accepted: every
\* mutation it attempted failed
C5_Witness ==
    /\ pc = "exit"
    /\ action = "start"
    /\ exit_code = 2
    /\ succeeded = << >>
    /\ failed # << >>
    /\ unresolved = << >>

\* C9: with zero targets, a start, stop, users or status run exits with 3
\* before any provider interaction: no client is built, nothing is called.
C9_NoTargetsExit3 ==
    (pc # "main" /\ action # "resolve" /\ NoTargetsGiven)
      => (pc = "exit" /\ exit_code = 3 /\ calls = << >>)

\* a start run that was given a file of blanks has exited
C9_Witness ==
    /\ pc = "exit"
    /\ action = "start"
    /\ NoTargetsGiven
    /\ file_arg.kind = "ok"

\* main got as far as the test of args.action after resolve_targets
ResolutionOver ==
    /\ pc = "exit"
    /\ file_arg.kind \in {"none", "ok"}
    /\ \A j \in 1..Len(calls) :
         calls[j].op \in {"build_ws_client", "describe_workspaces"} => calls[j].ok

\* C10: for --action resolve the exit code follows the outcome of the
\* resolution: 2 when some target resolved and some did not, 3 when some
\* target is unresolved and none resolved, 0 when none is unresolved; targets
\* ws-1, Bob's PC, ghost against an inventory holding the first two give
\* resolved [(ws-1, ws-1), (Bob's PC, ws-2)], unresolved [ghost] and exit 2;
\* no start or stop call is issued.
C10_ResolveExitCodes ==
    action = "resolve" =>
      /\ MutationCalls = << >>
      /\ ResolutionOver =>
           /\ (unresolved # << >> /\ resolved # << >>) => exit_code = 2
           /\ (unresolved # << >> /\ resolved = << >>) => exit_code = 3
           /\ unresolved = << >> => exit_code = 0
      /\ (ResolutionOver /\ targets = << ws_1, bobs_pc, ghost >>
            /\ all_ws = << R1, R2 >> /\ matched_now = << >>)
           => /\ resolved = << << ws_1, ws_1 >>, << bobs_pc, ws_2 >> >>
              /\ unresolved = << ghost >>
              /\ exit_code = 2

\* the scenario has run
C10_Witness ==
    /\ pc = "exit"
    /\ action = "resolve"
    /\ targets = << ws_1, bobs_pc, ghost >>
    /\ all_ws = << R1, R2 >>
    /\ resolved = << << ws_1, ws_1 >>, << bobs_pc, ws_2 >> >>
    /\ unresolved = << ghost >>
    /\ exit_code = 2

\* ---------------------------------------------------------------- properties of safe_describe_tags

\* the describe_tags calls of the running safe_describe_tags, in order
Attempts == SelectSeq(calls, LAMBDA c : c.op = "describe_tags_attempt")

\* the response is a rate-limit error
RateLimited(resp) ==
    /\ resp.kind = "ClientError"
    /\ resp.code \in {"Throttling", "ThrottlingException", "TooManyRequestsException"}

\* the keys of a TagList, and the value the answer gives a key last
TagKeys(tag_list) == {tag_list[k].Key : k \in 1..Len(tag_list)}
TagValue(tag_list, key) ==
    tag_list[Last({k \in 1..Len(tag_list) : tag_list[k].Key = key})].Value

C11_Safe ==
    /\ pc # "tags_raised"
    /\ Len(Attempts) <= 5
    /\ \A j \in 1..(Len(Attempts) - 1) : RateLimited(Attempts[j].resp)
    /\ (pc = "tags" /\ Attempts # << >>) => RateLimited(Attempts[Len(Attempts)].resp)
    /\ slept = SubSeq(<< 5, 10, 20, 40, 40 >>, 1,
                      Cardinality({j \in 1..Len(Attempts) :
                                     RateLimited(Attempts[j].resp)}))
    /\ pc = "tags_returned" =>
         /\ Attempts # << >>
         /\ LET last == Attempts[Len(Attempts)].resp
            IN  IF last.kind = "ok"
                THEN /\ DOMAIN tag_result = TagKeys(last.TagList)
                     /\ \A key \in TagKeys(last.TagList) :
                          tag_result[key] = TagValue(last.TagList, key)
                ELSE /\ DOMAIN tag_result = {}
                     /\ RateLimited(last) => Len(Attempts) = 5

\* C11: safe_describe_tags always terminates and never raises: it makes at
\* most 5 describe_tags attempts, goes on to another attempt only after a
\* rate-limit error (having slept 0.5, 1.0, 2.0, 4.0, 4.0), and returns the
\* empty map when the 5 attempts are used up or any other error occurs.
C11_TagsTerminateSafely == []C11_Safe /\ <>(pc = "tags_returned")

\* five rate-limit errors in a row: the empty map came back after the sleeps
\* 0.5, 1.0, 2.0, 4.0, 4.0
C11_Witness ==
    /\ pc = "tags_returned"
    /\ Len(Attempts) = 5
    /\ \A j \in 1..5 : RateLimited(Attempts[j].resp)
    /\ slept = << 5, 10, 20, 40, 40 >>
    /\ DOMAIN tag_result = {}

====
